---- MODULE Spec2Model ----
(***************************************************************************)
(* Model of the server actions of simple-flux-web-api-ui                   *)
(* (src/unnamed/part_000): generateImage, generateFluxProUltraImage and    *)
(* generateImageRealtime, the payload they build, the way they normalise   *)
(* the provider's response, their cost estimate, their log records and     *)
(* the shared fal client configuration they mutate.                        *)
(*                                                                         *)
(* JavaScript values that may be undefined are modelled as sequences of    *)
(* length 0 (undefined) or 1 (the value).  An object is a function from    *)
(* its keys, so "key absent" and "key present with an undefined value"     *)
(* are different objects.  Numbers that the code computes in floating      *)
(* point are IEEE-754 doubles: a record [m, e] with a 53-bit mantissa m    *)
(* and value m * 2^e.                                                      *)
(***************************************************************************)
EXTENDS Integers, Sequences, FiniteSets, TLC

VARIABLES
    falConfig,   \* the shared fal client configuration (credentials, proxyUrl)
    running,     \* the call whose synchronous section holds the JS thread, or 0
    args,        \* args[c]: the arguments call c was made with
    pc,          \* pc[c]: where call c stands
    payload,     \* payload[c]: the input object handed to the fal client
    subscribes,  \* subscribes[c]: fal.subscribe invocations made by call c
    sends,       \* sends[c]: connection.send invocations made by call c
    wire,        \* the provider requests made so far, with the key they carried
    response,    \* response[c]: what the provider returned or threw
    caught,      \* caught[c]: the value the catch block of call c received
    outcome,     \* outcome[c]: the settled promise (or callback return value)
    log          \* log[c]: the console records written for call c, in order

vars == <<falConfig, running, args, pc, payload, subscribes, sends, wire,
          response, caught, outcome, log>>

----------------------------------------------------------------------------
(* JavaScript values                                                       *)

None == <<>>
Some(x) == <<x>>
IsSet(m) == Len(m) = 1
Val(m) == m[1]
OrElse(m, d) == IF IsSet(m) THEN Val(m) ELSE d

----------------------------------------------------------------------------
(* IEEE-754 double arithmetic.  A natural number is a sequence of limbs    *)
(* of LimbBits bits, least significant first.                              *)

LimbBits == 14
Base == 2 ^ LimbBits
MantBits == 53

Max2(a, b) == IF a > b THEN a ELSE b
Min2(a, b) == IF a < b THEN a ELSE b

\* The canonical form: no zero limb at the high end.
Norm(a) ==
    LET used == {i \in 1..Len(a) : a[i] # 0}
    IN  IF used = {} THEN <<>>
        ELSE SubSeq(a, 1, CHOOSE i \in used : \A j \in used : j <= i)

FromInt(n) == Norm(<<n % Base, (n \div Base) % Base, n \div (Base * Base)>>)

RECURSIVE ToInt(_)
ToInt(a) == IF a = <<>> THEN 0 ELSE Head(a) + Base * ToInt(Tail(a))

Limb(a, i) == IF i >= 1 /\ i <= Len(a) THEN a[i] ELSE 0

\* Bits in a non-negative machine integer.
IntBits(n) == Cardinality({i \in 0..30 : 2 ^ i <= n})

BitLen(a) == IF a = <<>> THEN 0 ELSE LimbBits * (Len(a) - 1) + IntBits(a[Len(a)])

TestBit(a, i) == (Limb(a, (i - 1) \div LimbBits + 1) \div 2 ^ ((i - 1) % LimbBits)) % 2 = 1

\* Whether any of the k lowest bits is set.
AnyBit(a, k) ==
    \/ \E i \in 1..(k \div LimbBits) : Limb(a, i) # 0
    \/ Limb(a, k \div LimbBits + 1) % 2 ^ (k % LimbBits) # 0

RECURSIVE Carry(_, _, _)
Carry(cols, i, carry) ==
    IF i > Len(cols)
    THEN IF carry = 0 THEN <<>> ELSE <<carry % Base, carry \div Base>>
    ELSE LET s == cols[i] + carry
         IN  <<s % Base>> \o Carry(cols, i + 1, s \div Base)

Add(a, b) ==
    Norm(Carry([i \in 1..Max2(Len(a), Len(b)) |-> Limb(a, i) + Limb(b, i)], 1, 0))

RECURSIVE ColumnFrom(_, _, _, _)
ColumnFrom(a, b, k, i) ==
    IF i > Len(a) THEN 0
    ELSE Limb(a, i) * Limb(b, k - i + 1) + ColumnFrom(a, b, k, i + 1)

Mul(a, b) ==
    IF a = <<>> \/ b = <<>> THEN <<>>
    ELSE Norm(Carry([k \in 1..(Len(a) + Len(b) - 1) |-> ColumnFrom(a, b, k, 1)], 1, 0))

Shl(a, k) ==
    IF a = <<>> THEN <<>>
    ELSE [i \in 1..(k \div LimbBits) |-> 0] \o Mul(a, <<2 ^ (k % LimbBits)>>)

Shr(a, k) ==
    LET q == k \div LimbBits
        r == k % LimbBits
    IN  IF q >= Len(a) THEN <<>>
        ELSE Norm([i \in 1..(Len(a) - q) |->
                     Limb(a, i + q) \div 2 ^ r
                     + (Limb(a, i + q + 1) % 2 ^ r) * 2 ^ (LimbBits - r)])

One == <<1>>
Zero == [m |-> <<>>, e |-> 0]

\* The double nearest to (Q + f) * 2^E, f in [0, 1) and f > 0 iff sticky;
\* ties to even.  Q holds at least MantBits + 2 bits when sticky.
RoundBits(Q, E, sticky) ==
    IF Q = <<>> THEN Zero
    ELSE IF BitLen(Q) <= MantBits
    THEN [m |-> Shl(Q, MantBits - BitLen(Q)), e |-> E - (MantBits - BitLen(Q))]
    ELSE LET k    == BitLen(Q) - MantBits
             m0   == Shr(Q, k)
             rest == sticky \/ AnyBit(Q, k - 1)
             up   == TestBit(Q, k) /\ (rest \/ TestBit(m0, 1))
             m1   == IF up THEN Add(m0, One) ELSE m0
         IN  IF BitLen(m1) > MantBits
             THEN [m |-> Shr(m1, 1), e |-> E + k + 1]
             ELSE [m |-> m1, e |-> E + k]

\* Long division of r / d (r < d < 2^24), two half-limb digits per step,
\* to n fraction limbs, least significant first.
FracLimbs == 6
HalfBase == 2 ^ (LimbBits \div 2)

FracLimb(r, d) ==
    ((r * HalfBase) \div d) * HalfBase + (((r * HalfBase) % d) * HalfBase) \div d

FracNext(r, d) == (((r * HalfBase) % d) * HalfBase) % d

RECURSIVE FracDigits(_, _, _)
FracDigits(r, d, n) ==
    IF n = 0 THEN <<>>
    ELSE FracDigits(FracNext(r, d), d, n - 1) \o <<FracLimb(r, d)>>

RECURSIVE FracRem(_, _, _)
FracRem(r, d, n) == IF n = 0 THEN r ELSE FracRem(FracNext(r, d), d, n - 1)

\* p / d in double arithmetic for integers 0 <= p < 2^31, 0 < d < 2^24:
\* the exact quotient, rounded once.
FDivInt(p, d) ==
    RoundBits(Norm(FracDigits(p % d, d, FracLimbs) \o FromInt(p \div d)),
              -(LimbBits * FracLimbs), FracRem(p % d, d, FracLimbs) # 0)

FMul(x, y) == RoundBits(Mul(x.m, y.m), x.e + y.e, FALSE)

FAdd(x, y) ==
    IF x.m = <<>> THEN y
    ELSE IF y.m = <<>> THEN x
    ELSE LET emin == Min2(x.e, y.e)
         IN  RoundBits(Add(Shl(x.m, x.e - emin), Shl(y.m, y.e - emin)), emin, FALSE)

\* The integer n for which n / 1000 is nearest to x, the larger on a tie
\* (Number.prototype.toFixed(3)), for 0 <= x < 2^21.
ToFixed3(x) ==
    IF x.m = <<>> THEN 0
    ELSE IF x.e >= 0 THEN ToInt(Mul(Shl(x.m, x.e), FromInt(1000)))
    ELSE ToInt(Shr(Add(Mul(FromInt(2000), x.m), Shl(One, -x.e)), 1 - x.e))

----------------------------------------------------------------------------
(* Model registry and cost estimate                                        *)

AVAILABLE_MODELS ==
    ("flux-pro"     :> "fal-ai/flux-pro/v1.1-ultra")
    @@ ("flux-lora"    :> "fal-ai/flux-lora")
    @@ ("flux-dev"     :> "fal-ai/flux/dev")
    @@ ("flux-schnell" :> "fal-ai/flux/schnell")

ModelAliases == DOMAIN AVAILABLE_MODELS

\* The rate literals 0.05, 0.025, 0.003, 0.025 as the doubles they denote.
COST_PER_MEGAPIXEL ==
    ("flux-pro" :> FDivInt(5, 100))
    @@ ("flux-dev" :> FDivInt(25, 1000))
    @@ ("flux-schnell" :> FDivInt(3, 1000))
    @@ ("flux-lora" :> FDivInt(25, 1000))

\* Number(x.toFixed(3)): the double nearest to the 3-decimal rendering of x.
NumberToFixed3(x) == FDivInt(ToFixed3(x), 1000)

calculateImageCost(width, height, model) ==
    LET megapixels == FDivInt(width * height, 1000000)
        costPerMp  == IF model \in DOMAIN COST_PER_MEGAPIXEL
                      THEN COST_PER_MEGAPIXEL[model] ELSE Zero
    IN  NumberToFixed3(FMul(megapixels, costPerMp))

\* x || d on a possibly undefined number: undefined and 0 are both falsy.
OrNumber(x, d) == IF IsSet(x) /\ Val(x) # 0 THEN Val(x) ELSE d

RECURSIVE TotalCostFrom(_, _, _, _)
TotalCostFrom(images, model, i, acc) ==
    IF i > Len(images) THEN acc
    ELSE TotalCostFrom(images, model, i + 1,
            FAdd(acc, calculateImageCost(OrNumber(images[i].width, 2048),
                                         OrNumber(images[i].height, 2048),
                                         model)))

\* result.data.images.reduce(..., 0)
TotalCost(images, model) == TotalCostFrom(images, model, 1, Zero)

\* A variant of ImageUrls that lists the urls last to first.
ImageUrlsReversed(images) ==
    [i \in 1..Len(images) |-> images[Len(images) + 1 - i].url]

\* result.data.images.map(img => img.url)
ImageUrls(images) == [i \in 1..Len(images) |-> images[i].url]

----------------------------------------------------------------------------
(* Payload builders                                                        *)

\* Math.min(Math.max(1, numImages), 4)
ClampNumImages(n) == Min2(Max2(1, n), 4)

\* options?.k
Opt(options, k) == IF IsSet(options) THEN Val(options)[k] ELSE None

\* ...(cond && {k: v})
SpreadIf(cond, k, v) == IF cond THEN (k :> v) ELSE <<>>

GenerateImageInput(a) ==
    [ prompt                |-> Some(a.prompt),
      aspect_ratio          |-> Some(a.aspectRatio),
      num_images            |-> Some(ClampNumImages(OrElse(a.numImages, 1))),
      enable_safety_checker |-> Some(OrElse(Opt(a.options, "enable_safety_checker"), FALSE)),
      safety_tolerance      |-> Some(OrElse(Opt(a.options, "safety_tolerance"), "6")),
      output_format         |-> Some(OrElse(Opt(a.options, "output_format"), "jpeg")) ]
    @@ SpreadIf(IsSet(Opt(a.options, "seed")), "seed", Opt(a.options, "seed"))
    @@ SpreadIf(IsSet(Opt(a.options, "raw")), "raw", Opt(a.options, "raw"))

DigitValue ==
    ("0" :> 0)
    @@ ("1" :> 1)
    @@ ("2" :> 2)
    @@ ("3" :> 3)
    @@ ("4" :> 4)
    @@ ("5" :> 5)
    @@ ("6" :> 6)
    @@ ("7" :> 7)
    @@ ("8" :> 8)
    @@ ("9" :> 9)

\* Number(s) for a string of decimal digits, held as a sequence of characters.
RECURSIVE NumberOf(_)
NumberOf(s) ==
    IF s = <<>> THEN 0
    ELSE 10 * NumberOf(SubSeq(s, 1, Len(s) - 1)) + DigitValue[s[Len(s)]]

\* Truthiness of a possibly undefined string / number.
TruthyString(x) == IsSet(x) /\ Val(x) # ""
TruthyNumber(x) == IsSet(x) /\ Val(x) # 0

FluxProUltraInput(a) ==
    [ prompt                |-> Some(a.prompt),
      seed                  |-> a.seed,
      sync_mode             |-> Some(OrElse(a.sync_mode, FALSE)),
      num_images            |-> Some(NumberOf(OrElse(a.num_images, <<"1">>))),
      enable_safety_checker |-> Some(OrElse(a.enable_safety_checker, FALSE)),
      safety_tolerance      |-> Some(OrElse(a.safety_tolerance, "6")),
      output_format         |-> Some(OrElse(a.output_format, "jpeg")),
      aspect_ratio          |-> Some(OrElse(a.aspect_ratio, "16:9")),
      raw                   |-> Some(OrElse(a.raw, FALSE)) ]
    @@ SpreadIf(TruthyString(a.image_url), "image_url", a.image_url)
    @@ SpreadIf(TruthyNumber(a.image_prompt_strength),
                "image_prompt_strength", a.image_prompt_strength)

RealtimeInput(a) ==
    [ prompt                |-> Some(a.prompt),
      aspect_ratio          |-> Some(a.aspectRatio),
      output_format         |-> Some("jpeg"),
      enable_safety_checker |-> Some(FALSE) ]

----------------------------------------------------------------------------
(* Error formatting and log records                                        *)

\* A variant of ErrorMessage that drops the status code.
ErrorMessageWithoutStatus(error) ==
    IF error.isError THEN error.message ELSE "Unknown error"

\* error instanceof Error ? `${message}${status ? ` (Status: ${status})` : ''}`
\*                        : 'Unknown error'
ErrorMessage(error) ==
    IF error.isError
    THEN error.message \o (IF TruthyNumber(error.status)
                           THEN " (Status: " \o ToString(Val(error.status)) \o ")"
                           ELSE "")
    ELSE "Unknown error"

\* new Error(`Failed to generate image: ${errorMessage}`)
GenerationError(error) ==
    [ isError |-> TRUE,
      message |-> "Failed to generate image: " \o ErrorMessage(error),
      status  |-> None,
      body    |-> None ]

NewError(message) ==
    [isError |-> TRUE, message |-> message, status |-> None, body |-> None]

\* The string leaves of a possibly undefined string.
Leaf(x) == IF IsSet(x) THEN {Val(x)} ELSE {}

\* The strings a logged provider result holds: image urls and echoed data.
ResultStrings(r) ==
    (IF IsSet(r.images) THEN {Val(r.images)[i].url : i \in 1..Len(Val(r.images))} ELSE {})
    \cup Leaf(r.prompt)

\* console.log("Generation Input:", {model, aspectRatio, numImages, options})
InputLog(c, a) ==
    [ call  |-> c,
      level |-> "log",
      label |-> "Generation Input:",
      text  |-> {AVAILABLE_MODELS[a.model], a.aspectRatio}
                \cup Leaf(Opt(a.options, "safety_tolerance"))
                \cup Leaf(Opt(a.options, "output_format")) ]

\* console.log("Generation Output:", {status, images: [...], logs: result})
OutputLog(c, label, r) ==
    [call |-> c, level |-> "log", label |-> label, text |-> {"success"} \cup ResultStrings(r)]

\* console.error("Image generation failed:", {error, status, body, message})
ErrorLog(c, error) ==
    [ call  |-> c,
      level |-> "error",
      label |-> "Image generation failed:",
      text  |-> {error.message} \cup Leaf(error.body)
                \cup {IF error.isError THEN error.message ELSE "Unknown error"} ]

----------------------------------------------------------------------------
(* Bounds and the values calls are made with                               *)

NumCalls == 2
MaxImages == 2
MaxPolls == 1
MaxRequested == 6

Calls == 1..NumCalls

EnvKey == "env-FAL_KEY"
Key(c) == "key-" \o ToString(c)
Prompt == "a red fox"
TypeErrorMap == "Cannot read properties of undefined (reading 'map')"
TypeErrorUrl == "Cannot read properties of undefined (reading 'url')"
TypeErrorZero == "Cannot read properties of undefined (reading '0')"

Maybe(S) == {None} \cup {Some(x) : x \in S}

NoCall == [fn |-> "none"]

GenerateImageArgs(c, model, numImages, options) ==
    [ fn |-> "generateImage", apiKey |-> Key(c), prompt |-> Prompt,
      aspectRatio |-> "1:1", model |-> model, numImages |-> numImages,
      options |-> options ]

UltraDefaults(c) ==
    [ fn |-> "generateFluxProUltraImage", apiKey |-> Key(c), prompt |-> Prompt,
      seed |-> None, sync_mode |-> None, num_images |-> None,
      enable_safety_checker |-> None, safety_tolerance |-> None,
      output_format |-> None, aspect_ratio |-> None, raw |-> None,
      image_url |-> None, image_prompt_strength |-> None ]

RealtimeArgs(c, model) ==
    [ fn |-> "generateImageRealtime", apiKey |-> Key(c), prompt |-> Prompt,
      aspectRatio |-> "1:1", model |-> model ]

\* Provider responses: a result with (possibly absent) images, or a thrown value.
Image(url, width, height) == [url |-> url, width |-> width, height |-> height]

Result(images, prompt) == [kind |-> "result", images |-> images, prompt |-> prompt]

Thrown(error) == [kind |-> "throw", error |-> error]

SeqsUpTo(S, n) == UNION {[1..k -> S] : k \in 0..n}

ThrownValues ==
    { [isError |-> e, message |-> m, status |-> st, body |-> b] :
        e \in BOOLEAN, m \in {"Unauthorized"}, st \in Maybe({401, 500}),
        b \in Maybe({"{detail: ...}"}) }

----------------------------------------------------------------------------
(* Actions                                                                 *)

InitWith(A) ==
    /\ args \in A
    /\ falConfig = [credentials |-> EnvKey, proxyUrl |-> None]
    /\ running = 0
    /\ pc = [c \in Calls |-> "idle"]
    /\ payload = [c \in Calls |-> None]
    /\ subscribes = [c \in Calls |-> 0]
    /\ sends = [c \in Calls |-> 0]
    /\ wire = {}
    /\ response = [c \in Calls |-> None]
    /\ caught = [c \in Calls |-> None]
    /\ outcome = [c \in Calls |-> None]
    /\ log = [c \in Calls |-> <<>>]

\* fal.config({credentials: apiKey}) replaces the shared configuration.
Configure(apiKey, proxyUrl) == [credentials |-> apiKey, proxyUrl |-> proxyUrl]

\* A request made to the provider carries the credentials, and goes through
\* the proxy, of the configuration it is made with.
Request(c, op, n, config) ==
    [ call |-> c, op |-> op, n |-> n,
      credentials |-> config.credentials, proxyUrl |-> config.proxyUrl ]

StatusRequests(c) == {r \in wire : r.call = c /\ r.op = "status"}

\* generateImage up to its await: log the input, configure the shared client,
\* build the payload and hand it to fal.subscribe, which submits it.
generateImage(c) ==
    /\ running = 0
    /\ pc[c] = "idle"
    /\ args[c].fn = "generateImage"
    /\ log' = [log EXCEPT ![c] = Append(@, InputLog(c, args[c]))]
    /\ falConfig' = Configure(args[c].apiKey, None)
    /\ payload' = [payload EXCEPT ![c] = Some(GenerateImageInput(args[c]))]
    /\ subscribes' = [subscribes EXCEPT ![c] = @ + 1]
    /\ wire' = wire \cup {Request(c, "submit", 0, falConfig')}
    /\ pc' = [pc EXCEPT ![c] = "submitted"]
    /\ UNCHANGED <<running, args, sends, response, caught, outcome>>

\* generateFluxProUltraImage up to its await.
generateFluxProUltraImage(c) ==
    /\ running = 0
    /\ pc[c] = "idle"
    /\ args[c].fn = "generateFluxProUltraImage"
    /\ falConfig' = Configure(args[c].apiKey, None)
    /\ payload' = [payload EXCEPT ![c] = Some(FluxProUltraInput(args[c]))]
    /\ subscribes' = [subscribes EXCEPT ![c] = @ + 1]
    /\ wire' = wire \cup {Request(c, "submit", 0, falConfig')}
    /\ pc' = [pc EXCEPT ![c] = "submitted"]
    /\ UNCHANGED <<running, args, sends, response, caught, outcome, log>>

\* onQueueUpdate of generateFluxProUltraImage; generateImage passes none.
onQueueUpdate(c, status, lg) ==
    IF args[c].fn = "generateFluxProUltraImage"
    THEN LET l1 == Append(lg, [call |-> c, level |-> "log", label |-> "Queue update:",
                               text |-> {status, "step 1/28"}])
         IN  IF status = "IN_PROGRESS"
             THEN Append(l1, [call |-> c, level |-> "log",
                              label |-> "Generation progress:", text |-> {"step 1/28"}])
             ELSE l1
    ELSE lg

\* The configuration a request of an in-flight subscribe is made with: the
\* one the client held when subscribe was called, or the shared one as it
\* is when the request is made, as the client library has it.
InFlightConfig(c) == {Configure(args[c].apiKey, None), falConfig}

\* While subscribe is awaited the client polls the queue status.
Poll(c, status) ==
    /\ running = 0
    /\ pc[c] = "submitted"
    /\ Cardinality(StatusRequests(c)) < MaxPolls
    /\ \E k \in InFlightConfig(c) :
          wire' = wire \cup {Request(c, "status", Cardinality(StatusRequests(c)) + 1, k)}
    /\ log' = [log EXCEPT ![c] = onQueueUpdate(c, status, @)]
    /\ UNCHANGED <<falConfig, running, args, pc, payload, subscribes, sends,
                   response, caught, outcome>>

\* The client fetches the result of the finished request.
ProviderResult(c, r) ==
    /\ running = 0
    /\ pc[c] = "submitted"
    /\ \E k \in InFlightConfig(c) :
          wire' = wire \cup {Request(c, "result", 0, k)}
    /\ response' = [response EXCEPT ![c] = Some(r)]
    /\ pc' = [pc EXCEPT ![c] = "settled"]
    /\ UNCHANGED <<falConfig, running, args, payload, subscribes, sends,
                   caught, outcome, log>>

\* fal.subscribe rejects with the value e.
ProviderThrow(c, e) ==
    /\ running = 0
    /\ pc[c] = "submitted"
    /\ response' = [response EXCEPT ![c] = Some(Thrown(e))]
    /\ pc' = [pc EXCEPT ![c] = "settled"]
    /\ UNCHANGED <<falConfig, running, args, payload, subscribes, sends, wire,
                   caught, outcome, log>>

\* The catch block shared by generateImage and generateFluxProUltraImage.
Catch(c, error, lg) ==
    /\ log' = [log EXCEPT ![c] = Append(lg, ErrorLog(c, error))]
    /\ caught' = [caught EXCEPT ![c] = Some(error)]
    /\ outcome' = [outcome EXCEPT ![c] =
                      Some([state |-> "rejected", error |-> GenerationError(error)])]
    /\ pc' = [pc EXCEPT ![c] = "rejected"]

Return(c, value, lg) ==
    /\ log' = [log EXCEPT ![c] = lg]
    /\ caught' = caught
    /\ outcome' = [outcome EXCEPT ![c] = Some([state |-> "resolved", value |-> value])]
    /\ pc' = [pc EXCEPT ![c] = "resolved"]

\* A variant of generateImageResume that calls the provider again, once,
\* when the first call threw.
generateImageResumeRetrying(c) ==
    /\ running = 0
    /\ pc[c] = "settled"
    /\ args[c].fn = "generateImage"
    /\ LET r == Val(response[c])
       IN  IF r.kind = "throw" /\ subscribes[c] < 2
           THEN /\ pc' = [pc EXCEPT ![c] = "idle"]
                /\ UNCHANGED <<caught, outcome, log>>
           ELSE IF r.kind = "throw"
           THEN Catch(c, r.error, log[c])
           ELSE IF ~IsSet(r.images) \/ Len(Val(r.images)) = 0
           THEN Catch(c, NewError("No images in response"), log[c])
           ELSE Return(c, [ status    |-> "COMPLETED",
                            imageUrls |-> ImageUrls(Val(r.images)),
                            cost      |-> TotalCost(Val(r.images), args[c].model) ], log[c])
    /\ UNCHANGED <<falConfig, running, args, payload, subscribes, sends, wire, response>>

\* generateImage after its await: the rest of the try block, or the catch.
generateImageResume(c) ==
    /\ running = 0
    /\ pc[c] = "settled"
    /\ args[c].fn = "generateImage"
    /\ LET r == Val(response[c])
       IN  IF r.kind = "throw"
           THEN Catch(c, r.error, log[c])
           ELSE IF ~IsSet(r.images)
           THEN Catch(c, NewError(TypeErrorMap), log[c])
           ELSE LET images == Val(r.images)
                    lg     == Append(log[c], OutputLog(c, "Generation Output:", r))
                IN  IF Len(images) = 0
                    THEN Catch(c, NewError("No images in response"), lg)
                    ELSE Return(c, [ status    |-> "COMPLETED",
                                     imageUrls |-> ImageUrls(images),
                                     cost      |-> TotalCost(images, args[c].model) ], lg)
    /\ UNCHANGED <<falConfig, running, args, payload, subscribes, sends, wire, response>>

\* generateFluxProUltraImage after its await.
generateFluxProUltraImageResume(c) ==
    /\ running = 0
    /\ pc[c] = "settled"
    /\ args[c].fn = "generateFluxProUltraImage"
    /\ LET r == Val(response[c])
       IN  IF r.kind = "throw"
           THEN Catch(c, r.error, log[c])
           ELSE LET lg == Append(log[c], OutputLog(c, "FluxPro generation response:", r))
                IN  IF ~IsSet(r.images) \/ Len(Val(r.images)) = 0
                       \/ Val(r.images)[1].url = ""
                    THEN Catch(c, NewError("No image URL in response"), lg)
                    ELSE Return(c, Val(r.images)[1].url, lg)
    /\ UNCHANGED <<falConfig, running, args, payload, subscribes, sends, wire, response>>

\* generateImageRealtime runs without an await: its three statements run
\* back to back on the JS thread, which `running` holds for them.
realtimeConfig(c) ==
    /\ running = 0
    /\ pc[c] = "idle"
    /\ args[c].fn = "generateImageRealtime"
    /\ falConfig' = Configure(args[c].apiKey, Some("/api/fal/proxy"))
    /\ running' = c
    /\ pc' = [pc EXCEPT ![c] = "configured"]
    /\ UNCHANGED <<args, payload, subscribes, sends, wire, response, caught, outcome, log>>

realtimeConnect(c) ==
    /\ running = c
    /\ pc[c] = "configured"
    /\ wire' = wire \cup {Request(c, "connect", 0, falConfig)}
    /\ pc' = [pc EXCEPT ![c] = "connected"]
    /\ UNCHANGED <<falConfig, running, args, payload, subscribes, sends, response,
                   caught, outcome, log>>

\* A variant of realtimeSend that does not wait for the channel to be opened.
realtimeSendUnconnected(c) ==
    /\ running = c
    /\ pc[c] \in {"configured", "connected"}
    /\ payload' = [payload EXCEPT ![c] = Some(RealtimeInput(args[c]))]
    /\ sends' = [sends EXCEPT ![c] = @ + 1]
    /\ wire' = wire \cup {Request(c, "send", sends[c] + 1, falConfig)}
    /\ running' = 0
    /\ pc' = [pc EXCEPT ![c] = "sent"]
    /\ UNCHANGED <<falConfig, args, subscribes, response, caught, outcome, log>>

\* connection.send({...})
realtimeSend(c) ==
    /\ running = c
    /\ pc[c] = "connected"
    /\ payload' = [payload EXCEPT ![c] = Some(RealtimeInput(args[c]))]
    /\ sends' = [sends EXCEPT ![c] = @ + 1]
    /\ wire' = wire \cup {Request(c, "send", sends[c] + 1, falConfig)}
    /\ running' = 0
    /\ pc' = [pc EXCEPT ![c] = "sent"]
    /\ UNCHANGED <<falConfig, args, subscribes, response, caught, outcome, log>>

\* The onResult callback of generateImageRealtime, fired by the provider.
onResult(c, r) ==
    /\ running = 0
    /\ pc[c] = "sent"
    /\ response' = [response EXCEPT ![c] = Some(r)]
    /\ log' = [log EXCEPT ![c] =
                  Append(@, [call |-> c, level |-> "log",
                             label |-> "Realtime generation response:",
                             text |-> ResultStrings(r)])]
    /\ IF IsSet(r.images) /\ Len(Val(r.images)) > 0
       THEN /\ outcome' = [outcome EXCEPT ![c] =
                  Some([state |-> "callback",
                        value |-> [status |-> "COMPLETED",
                                   imageUrl |-> Val(r.images)[1].url]])]
            /\ caught' = caught
            /\ pc' = [pc EXCEPT ![c] = "result"]
       ELSE /\ outcome' = outcome
            /\ caught' = [caught EXCEPT ![c] =
                  Some(NewError(IF IsSet(r.images) THEN TypeErrorUrl ELSE TypeErrorZero))]
            /\ pc' = [pc EXCEPT ![c] = "error"]
    /\ UNCHANGED <<falConfig, running, args, payload, subscribes, sends, wire>>

\* The provider ends the realtime exchange with an error; no handler is set.
realtimeError(c) ==
    /\ running = 0
    /\ pc[c] = "sent"
    /\ pc' = [pc EXCEPT ![c] = "error"]
    /\ UNCHANGED <<falConfig, running, args, payload, subscribes, sends, wire,
                   response, caught, outcome, log>>

----------------------------------------------------------------------------
(* Specifications                                                          *)

OnlyCall1(A) == {[c \in Calls |-> IF c = 1 THEN a ELSE NoCall] : a \in A}

QueueStatuses == {"IN_QUEUE", "IN_PROGRESS"}

\* Concurrent calls, each with its own API key.  The request an in-flight
\* subscribe makes here is the fetch of its result; its status polls are
\* followed in SpecGen.
ConcArgs ==
    [Calls -> UNION {{GenerateImageArgs(c, "flux-dev", Some(1), None),
                      RealtimeArgs(c, "flux-schnell")} : c \in Calls}]

ConcInit == InitWith({a \in ConcArgs : \A c \in Calls : a[c].apiKey = Key(c)})

ConcResults == {Result(Some(<<Image("a", Some(1024), Some(1024))>>), None)}

RealtimeResults == ConcResults \cup {Result(Some(<<>>), None), Result(None, None)}

ConcThrown == {[isError |-> TRUE, message |-> "Unauthorized", status |-> Some(401),
                body |-> None]}

Next ==
    \E c \in Calls :
        \/ generateImage(c)
        \/ \E r \in ConcResults : ProviderResult(c, r)
        \/ \E e \in ConcThrown : ProviderThrow(c, e)
        \/ generateImageResume(c)
        \/ realtimeConfig(c)
        \/ realtimeConnect(c)
        \/ realtimeSend(c)
        \/ \E r \in RealtimeResults : onResult(c, r)
        \/ realtimeError(c)

Spec == ConcInit /\ [][Next]_vars

\* One call of generateImage or generateFluxProUltraImage against every
\* shape of provider response.
GenArgs == {GenerateImageArgs(1, "flux-dev", Some(2), None), UltraDefaults(1)}

GenImages == {Image(u, w, Some(1000)) : u \in {"a", "b", ""}, w \in Maybe({1000})}

GenResults ==
    {Result(i, p) : i \in Maybe(SeqsUpTo(GenImages, MaxImages)), p \in Maybe({Prompt})}

GenInit == InitWith(OnlyCall1(GenArgs))

GenNext ==
    \E c \in Calls :
        \/ generateImage(c)
        \/ generateFluxProUltraImage(c)
        \/ \E st \in QueueStatuses : Poll(c, st)
        \/ \E r \in GenResults : ProviderResult(c, r)
        \/ \E e \in ThrownValues : ProviderThrow(c, e)
        \/ generateImageResume(c)
        \/ generateFluxProUltraImageResume(c)

SpecGen == GenInit /\ [][GenNext]_vars

\* One call of generateImage per model alias against images of every
\* combination of present and absent dimensions.
CostArgs == {GenerateImageArgs(1, m, Some(2), None) : m \in ModelAliases}

CostImages == {Image("a", w, h) : w \in Maybe({1000, 2000}), h \in Maybe({1000})}

CostResults == {Result(Some(i), None) : i \in SeqsUpTo(CostImages, MaxImages)}

CostInit == InitWith(OnlyCall1(CostArgs))

CostNext ==
    \E c \in Calls :
        \/ generateImage(c)
        \/ \E r \in CostResults : ProviderResult(c, r)
        \/ generateImageResume(c)

SpecCost == CostInit /\ [][CostNext]_vars

\* One call with every combination of supplied and unsupplied options.
OptionBags ==
    [ seed : Maybe({0, 42}), enable_safety_checker : Maybe(BOOLEAN),
      safety_tolerance : Maybe({"2"}), output_format : Maybe({"png"}),
      raw : Maybe(BOOLEAN) ]

PayloadArgs ==
    {GenerateImageArgs(1, "flux-dev", n, o) :
        n \in Maybe(-1..MaxRequested), o \in Maybe(OptionBags)}
    \cup
    {[UltraDefaults(1) EXCEPT !.num_images = n, !.seed = o.seed,
        !.enable_safety_checker = o.enable_safety_checker,
        !.safety_tolerance = o.safety_tolerance,
        !.output_format = o.output_format, !.raw = o.raw,
        !.image_url = u, !.image_prompt_strength = st] :
        n \in Maybe({<<"0">>, <<"1">>, <<"4">>, <<"7">>, <<"1", "2">>}),
        o \in OptionBags, u \in Maybe({"", "https://x/in.png"}),
        st \in Maybe({0, 1})}

PayloadInit == InitWith(OnlyCall1(PayloadArgs))

PayloadNext ==
    \E c \in Calls :
        \/ generateImage(c)
        \/ generateFluxProUltraImage(c)

SpecPayload == PayloadInit /\ [][PayloadNext]_vars

----------------------------------------------------------------------------
(* Claims                                                                  *)

GenerationFns == {"generateImage", "generateFluxProUltraImage"}

Settled(c) == pc[c] \in {"resolved", "rejected"}

\* The image count the caller asked for.
RequestedCount(a) ==
    IF a.fn = "generateImage" THEN OrElse(a.numImages, 1)
    ELSE NumberOf(OrElse(a.num_images, <<"1">>))

\* C1: whatever image count the caller supplies, the num_images of a request
\* dispatched by generateImage or generateFluxProUltraImage is in [1,4], and
\* is the supplied count whenever that is in [1,4].
C1_NumImagesInRange ==
    \A c \in Calls :
        (args[c].fn \in GenerationFns /\ IsSet(payload[c])) =>
            LET sent == Val(Val(payload[c]).num_images)
                n    == RequestedCount(args[c])
            IN  /\ sent \in 1..4
                /\ n \in 1..4 => sent = n

\* What the caller supplied for option k (None when left unset).
Supplied(a, k) ==
    IF a.fn = "generateImage"
    THEN IF k \in {"image_url", "image_prompt_strength"} THEN None
         ELSE Opt(a.options, k)
    ELSE a[k]

OptionalScalars == {"seed", "raw", "image_url", "image_prompt_strength"}

\* C2: the payload carries enable_safety_checker, safety_tolerance and
\* output_format as supplied, or false, "6" and "jpeg" when not supplied, and
\* each optional scalar (seed, raw, image_url, image_prompt_strength) is a
\* key of the payload exactly when the caller supplied it, with that value.
C2_DefaultsAndOptionalFields ==
    \A c \in Calls :
        (args[c].fn \in GenerationFns /\ IsSet(payload[c])) =>
            LET p == Val(payload[c])
                a == args[c]
            IN  /\ p.enable_safety_checker = Some(OrElse(Supplied(a, "enable_safety_checker"), FALSE))
                /\ p.safety_tolerance = Some(OrElse(Supplied(a, "safety_tolerance"), "6"))
                /\ p.output_format = Some(OrElse(Supplied(a, "output_format"), "jpeg"))
                /\ \A k \in OptionalScalars :
                      IF IsSet(Supplied(a, k))
                      THEN k \in DOMAIN p /\ p[k] = Supplied(a, k)
                      ELSE k \notin DOMAIN p

\* The provider returned a result whose data.images is empty or absent.
NoImages(c) ==
    /\ IsSet(response[c])
    /\ Val(response[c]).kind = "result"
    /\ \/ ~IsSet(Val(response[c]).images)
       \/ Len(Val(Val(response[c]).images)) = 0

\* C3: when the provider's data.images is empty or absent, generateImage
\* rejects with "Failed to generate image: No images in response" and never
\* resolves; every COMPLETED result has a non-empty imageUrls.
C3_NoImagesRejected ==
    \A c \in Calls :
        (args[c].fn = "generateImage" /\ Settled(c)) =>
            /\ NoImages(c) =>
                  /\ pc[c] = "rejected"
                  /\ Val(outcome[c]).error.message
                        = "Failed to generate image: No images in response"
            /\ pc[c] = "resolved" => Len(Val(outcome[c]).value.imageUrls) > 0

\* rate(alias) in thousandths of the currency per megapixel.
RateMilli ==
    ("flux-pro" :> 50) @@ ("flux-dev" :> 25) @@ ("flux-schnell" :> 3) @@ ("flux-lora" :> 25)

\* round3(w * h / 1,000,000 * rate), in thousandths.
Round3Milli(w, h, alias) == (w * h * RateMilli[alias] + 500000) \div 1000000

RECURSIVE ClaimedMilliFrom(_, _, _)
ClaimedMilliFrom(images, alias, i) ==
    IF i > Len(images) THEN 0
    ELSE Round3Milli(OrElse(images[i].width, 2048), OrElse(images[i].height, 2048), alias)
         + ClaimedMilliFrom(images, alias, i + 1)

\* C4: for N >= 1 images the returned cost is the sum over the images of
\* round3(w * h / 1,000,000 * rate(alias)), 2048 standing in for a dimension
\* only when the provider omitted it, and is a value of 3 decimal places.
C4_CostIsSumOfRoundedCosts ==
    \A c \in Calls :
        (args[c].fn = "generateImage" /\ pc[c] = "resolved") =>
            LET cost   == Val(outcome[c]).value.cost
                images == Val(Val(response[c]).images)
            IN  /\ cost = FDivInt(ClaimedMilliFrom(images, args[c].model, 1), 1000)
                /\ cost = NumberToFixed3(cost)

\* The provider returned a result with at least one image.
HasImages(c) ==
    /\ IsSet(response[c])
    /\ Val(response[c]).kind = "result"
    /\ IsSet(Val(response[c]).images)
    /\ Len(Val(Val(response[c]).images)) >= 1

\* C5: for a provider response with N >= 1 images generateImage resolves
\* with status "COMPLETED" and N imageUrls, the i-th being the url of the
\* i-th image of the response.
C5_UrlsInProviderOrder ==
    \A c \in Calls :
        (args[c].fn = "generateImage" /\ Settled(c) /\ HasImages(c)) =>
            LET images == Val(Val(response[c]).images)
            IN  /\ pc[c] = "resolved"
                /\ Val(outcome[c]).state = "resolved"
                /\ Val(outcome[c]).value.status = "COMPLETED"
                /\ Len(Val(outcome[c]).value.imageUrls) = Len(images)
                /\ \A i \in 1..Len(images) :
                      Val(outcome[c]).value.imageUrls[i] = images[i].url

C5_Witness ==
    \E c \in Calls :
        /\ args[c].fn = "generateImage"
        /\ pc[c] = "resolved"
        /\ Val(outcome[c]).value.imageUrls = <<"b", "a">>

\* The call of c failed: the provider threw, or returned nothing usable.
Failed(c) ==
    /\ IsSet(response[c])
    /\ \/ Val(response[c]).kind = "throw"
       \/ NoImages(c)
       \/ /\ args[c].fn = "generateFluxProUltraImage"
          /\ HasImages(c)
          /\ Val(Val(response[c]).images)[1].url = ""

\* The message the caller is to see for the underlying error e.
SurfacedMessage(e) ==
    "Failed to generate image: "
    \o (IF e.isError
        THEN e.message \o (IF IsSet(e.status)
                           THEN " (Status: " \o ToString(Val(e.status)) \o ")"
                           ELSE "")
        ELSE "Unknown error")

\* C6: every failure of a generation call reaches the caller as one
\* rejection whose message is "Failed to generate image: " + the underlying
\* message + " (Status: <code>)" exactly when the underlying error carries a
\* status code, and "Failed to generate image: Unknown error" when the
\* thrown value is no Error; no failure resolves.
C6_FailureSurfaced ==
    \A c \in Calls :
        (args[c].fn \in GenerationFns /\ Settled(c)) =>
            /\ Failed(c) => pc[c] = "rejected"
            /\ pc[c] = "rejected" =>
                  /\ IsSet(caught[c])
                  /\ Val(response[c]).kind = "throw" => Val(caught[c]) = Val(response[c]).error
                  /\ Val(outcome[c]).state = "rejected"
                  /\ Val(outcome[c]).error.isError
                  /\ Val(outcome[c]).error.message = SurfacedMessage(Val(caught[c]))

C6_Witness ==
    \E c \in Calls :
        /\ pc[c] = "rejected"
        /\ Val(response[c]).kind = "throw"
        /\ Val(caught[c]).isError
        /\ Val(caught[c]).status = Some(500)
        /\ Val(outcome[c]).error.message
              = "Failed to generate image: Unauthorized (Status: 500)"

\* C7: every request made to the provider on behalf of a call is made with
\* the API key passed to that call, under every interleaving of calls.
C7_RequestsCarryOwnKey ==
    \A r \in wire : r.credentials = args[r.call].apiKey

\* C8: no log record holds the API key or the prompt of the call it was
\* written for.
C8_NoSecretsLogged ==
    \A c \in Calls :
        \A i \in 1..Len(log[c]) :
            log[c][i].text \cap {args[c].apiKey, args[c].prompt} = {}

C9_Inv ==
    \A c \in Calls :
        args[c].fn = "generateImage" =>
            /\ subscribes[c] = (IF pc[c] = "idle" THEN 0 ELSE 1)
            /\ IsSet(outcome[c]) <=> Settled(c)
            /\ pc[c] = "resolved" =>
                  /\ Val(outcome[c]).state = "resolved"
                  /\ Val(outcome[c]).value.status = "COMPLETED"
            /\ pc[c] = "rejected" => Val(outcome[c]).state = "rejected"

C9_Step ==
    \A c \in Calls :
        args[c].fn = "generateImage" =>
            /\ Settled(c) =>
                  /\ pc'[c] = pc[c]
                  /\ outcome'[c] = outcome[c]
                  /\ subscribes'[c] = subscribes[c]
            /\ pc[c] = "settled" =>
                  /\ subscribes'[c] = subscribes[c]
                  /\ pc'[c] \in {"settled", "resolved", "rejected"}
                  /\ Failed(c) => pc'[c] \in {"settled", "rejected"}

\* C9: an invocation of generateImage calls the provider exactly once and
\* settles at most once, resolved with "COMPLETED" or rejected; after a
\* provider failure or an empty result it calls the provider no second time
\* and its next step is the rejection.
C9_OneCallOneOutcome == []C9_Inv /\ [][C9_Step]_vars

C9_Witness ==
    \E c \in Calls :
        /\ args[c].fn = "generateImage"
        /\ pc[c] = "rejected"
        /\ NoImages(c)
        /\ subscribes[c] = 1

\* The state of the realtime exchange of a call.
StateOf(p) ==
    CASE p \in {"idle", "configured"} -> "Disconnected"
      [] p = "connected" -> "Connected"
      [] p = "sent" -> "Sent"
      [] p = "result" -> "Result"
      [] p = "error" -> "Error"

RealtimeTransitions ==
    { <<"Disconnected", "Connected">>, <<"Connected", "Sent">>,
      <<"Sent", "Result">>, <<"Sent", "Error">> }

RequestsOf(c, op) == {r \in wire : r.call = c /\ r.op = op}

C10_Inv ==
    \A c \in Calls :
        args[c].fn = "generateImageRealtime" =>
            /\ sends[c] = (IF StateOf(pc[c]) \in {"Sent", "Result", "Error"} THEN 1 ELSE 0)
            /\ Cardinality(RequestsOf(c, "send")) = sends[c]
            /\ StateOf(pc[c]) # "Disconnected" =>
                  /\ Cardinality(RequestsOf(c, "connect")) = 1
                  /\ \A r \in RequestsOf(c, "connect") \cup RequestsOf(c, "send") :
                        /\ r.credentials = args[c].apiKey
                        /\ r.proxyUrl = Some("/api/fal/proxy")
            /\ IsSet(payload[c]) =>
                  /\ sends[c] = 1
                  /\ Val(payload[c]).prompt = Some(args[c].prompt)
            /\ IsSet(outcome[c]) <=> StateOf(pc[c]) = "Result"
            /\ StateOf(pc[c]) = "Result" =>
                  /\ HasImages(c)
                  /\ Val(outcome[c]).value.status = "COMPLETED"
                  /\ Val(outcome[c]).value.imageUrl = Val(Val(response[c]).images)[1].url

C10_Step ==
    \A c \in Calls :
        args[c].fn = "generateImageRealtime" =>
            /\ \/ StateOf(pc'[c]) = StateOf(pc[c])
               \/ <<StateOf(pc[c]), StateOf(pc'[c])>> \in RealtimeTransitions
            /\ StateOf(pc[c]) \in {"Result", "Error"} =>
                  /\ sends'[c] = sends[c]
                  /\ {r \in wire' : r.call = c} = {r \in wire : r.call = c}

\* C10: the realtime variant moves only Disconnected -> Connected -> Sent ->
\* Result | Error: the credential and the proxy are configured and the
\* channel opened before the prompt is sent, the prompt is sent exactly once,
\* the result callback fires only after the send and yields the url of the
\* result's image, and nothing is reopened or resent after Result or Error.
C10_RealtimeOrder == []C10_Inv /\ [][C10_Step]_vars

C10_Witness ==
    \E c \in Calls :
        /\ args[c].fn = "generateImageRealtime"
        /\ StateOf(pc[c]) = "Result"
        /\ Val(outcome[c]).value.imageUrl = "a"
====
